---- MODULE Spec2Model ----
(***************************************************************************)
(* lovego/sqlmq: a message queue kept in a PostgreSQL table.               *)
(*                                                                         *)
(* The model covers the table adapter (std_table.go, stdTable) and the     *)
(* consumer side of SqlMQ (Consume, consume, consumeOne, handle, markFail, *)
(* beginTx).  The database is modelled by what the statements of the       *)
(* source ask of it: a row per message, an exclusive row lock taken by     *)
(* SELECT ... FOR UPDATE SKIP LOCKED and kept until the transaction ends,  *)
(* writes of a transaction that become visible at COMMIT, an UPDATE on a   *)
(* plain connection that waits for the row lock and then commits by        *)
(* itself, and a statement error inside a transaction that leaves the      *)
(* transaction aborted (its COMMIT then persists nothing).                 *)
(*                                                                         *)
(* Time is a discrete clock; durations are small integers.                 *)
(***************************************************************************)
EXTENDS Integers, FiniteSets, Sequences, TLC

\* ---------------------------------------------------------------- bounds
NMsgs == 1          \* message ids 1..NMsgs (bigserial)
NProcs == 1         \* consumer processes running Consume() on the same table
MaxTx == 2          \* claim transactions whose handle goroutine is alive at once
MaxTime == 2        \* the clock runs 0..MaxTime
MaxDispatch == 2    \* claims that reach a handle goroutine, per message

Msgs == 1..NMsgs
Procs == 1..NProcs
TxIds == 1..MaxTx

\* ------------------------------------------------------------- constants
statusWait == ""
statusDone == "done"
statusGivenUp == "givenUp"

\* getWaitTime: the two sleeps of the loop, in clock ticks, both > 0
IdleWait == 1
ErrorWait == 2
\* time.Minute, the retry delay of an unknown queue: longer than IdleWait, and
\* short enough for the clock to reach the rescheduled retry_at
Minute == 2

\* queue names; Init registers a handler for queue "a" only
QueueNames == {"a", "b"}
\* the queue sets the consumer is started with
QueueSets == {{}, {"a", "b"}}
\* every queue set SetQueues can be given
AllQueueSets == SUBSET QueueNames
\* what a handler may return as retryAfter
RetryAfters == {-1, 0, 1}

\* the empty cached statement (table.earliestMessageSql == "")
NoSql == [built |-> FALSE, queues |-> {}]
\* the statement text built for a queue set
SqlOf(qs) == [built |-> TRUE, queues |-> qs]

VARIABLES
    now,                \* the wall clock
    rows,               \* the table: one row per message id
    queues,             \* stdTable.queues
    earliestMessageSql, \* stdTable.earliestMessageSql: NoSql, or the statement built
    handlers,           \* SqlMQ's handler registry: the queues that have a handler
    txs,                \* claim transactions and their handle goroutines
    loop,               \* per process: where Consume() is
    consumeNotify,      \* per process: number of values in the channel
    trig,               \* per process: TriggerConsume was called during the current sleep
    hist,               \* per message: what has happened to it so far
    call                \* per process: the EarliestMessage call in progress, statement by statement

vars == <<now, rows, queues, earliestMessageSql, handlers, txs, loop, consumeNotify, trig, hist, call>>

\* ------------------------------------------------------------------ rows
\* ins: "none" not inserted, "open" inserted by a producer transaction that
\* has not ended, "committed", "rolledback"
NoRow == [ins |-> "none", queue |-> "a", status |-> statusWait, try_count |-> 0, retry_at |-> 0]

\* a free transaction slot
\* state: "free", "open" (holds the row lock of msg), "ended"
\* pc   : "handle" goroutine started, "running" handler invoked,
\*        "exit" handler and mark done, deferred function still to run, "done"
\* job  : the goroutine of `go mq.markFail(mq.DB, ...)`:
\*        "none", "spawned", "exec" statement built and sent, "done"
NoTx == [state |-> "free", proc |-> 1, msg |-> 1, pc |-> "done",
         err |-> FALSE, canCommit |-> FALSE, retryAfter |-> 0,
         wrote |-> FALSE, aborted |-> FALSE,
         mark |-> "none", markAt |-> 0,
         job |-> "none", jobAt |-> 0]

\* history of a message:
\* started    : claims of it that reached a handle goroutine
\* success    : committed MarkSuccess statements
\* effects    : commits that carried writes of its handler
\* lost       : dispatches that ended with their mark not committed, because a
\*              statement or the commit failed or the transaction had timed out
\* gaveUp     : a handler has returned err != nil with retryAfter < 0 for it
NoHist == [started |-> 0, success |-> 0, effects |-> 0, lost |-> 0, gaveUp |-> FALSE]

\* loop[p]: pc "consume" about to enter consume, "consumeOne" inside consume's
\* for loop, "sleep" in Consume's select until the timer (until) or a wake-up;
\* res: how the last consume ended; over: for each message, why the claim
\* statement of that consume passed it over ("" when it did not)
NoneOver == [m \in Msgs |-> ""]

\* call[p]: an EarliestMessage call taken apart into the critical sections of
\* getEarliestMessageSql and the query:
\* pc      : "idle" no call in progress, "store" the statement is built and the
\*           read lock released, the write lock not yet taken, "query" the
\*           statement is in hand and about to run
\* querySql: the statement of the call (of the last call when idle)
\* ret     : the id of the row the last call returned, 0 for none
\* fresh   : no SetQueues has run since the call began
NoCall == [pc |-> "idle", querySql |-> NoSql, ret |-> 0, fresh |-> FALSE]

Locked(m) == \E t \in TxIds : txs[t].state = "open" /\ txs[t].msg = m

Init ==
    /\ now = 0
    /\ rows = [m \in Msgs |-> NoRow]
    /\ queues \in QueueSets
    /\ earliestMessageSql = NoSql
    /\ handlers = {"a"}
    /\ txs = [t \in TxIds |-> NoTx]
    /\ loop = [p \in Procs |-> [pc |-> "consume", until |-> 0, res |-> "none", over |-> NoneOver]]
    /\ consumeNotify = [p \in Procs |-> 0]
    /\ trig = [p \in Procs |-> FALSE]
    /\ hist = [m \in Msgs |-> NoHist]
    /\ call = [p \in Procs |-> NoCall]

\* ------------------------------------------------------ the table adapter
\* a MarkSuccess that forgets the status
MarkSuccessStaysWait(row, t) ==
    [row EXCEPT !.try_count = @ + 1, !.retry_at = t]

\* MarkSuccess: UPDATE SET status = 'done', try_count = try_count+1, retry_at = now
MarkSuccess(row, t) ==
    [row EXCEPT !.status = statusDone, !.try_count = @ + 1, !.retry_at = t]

\* a MarkRetry that forgets the delay
MarkRetryNoDelay(row, t, retryAfter) ==
    [row EXCEPT !.try_count = @ + 1, !.retry_at = t]

\* a MarkRetry that leaves try_count alone
MarkRetryNoCount(row, t, retryAfter) ==
    [row EXCEPT !.retry_at = t + retryAfter]

\* MarkRetry: UPDATE SET try_count = try_count+1, retry_at = now + retryAfter
MarkRetry(row, t, retryAfter) ==
    [row EXCEPT !.try_count = @ + 1, !.retry_at = t + retryAfter]

\* a MarkGivenUp that leaves try_count alone
MarkGivenUpNoCount(row, t) ==
    [row EXCEPT !.status = statusGivenUp, !.retry_at = t]

\* MarkGivenUp: UPDATE SET status = 'givenUp', try_count = try_count+1, retry_at = now
MarkGivenUp(row, t) ==
    [row EXCEPT !.status = statusGivenUp, !.try_count = @ + 1, !.retry_at = t]

\* a markFail that retries whatever the sign of retryAfter
markFailAlwaysRetry(retryAfter) == "retry"

\* markFail: which statement it issues for a handler's retryAfter
markFail(retryAfter) == IF retryAfter >= 0 THEN "retry" ELSE "givenup"

\* the row after the UPDATE of `mark`, built at time t, has been applied to it
\* (the UPDATEs select the row by id alone)
ApplyMark(row, mark, t, retryAfter) ==
    CASE mark = "success" -> MarkSuccess(row, t)
      [] mark = "retry"   -> MarkRetry(row, t, retryAfter)
      [] mark = "givenup" -> MarkGivenUp(row, t)
      [] OTHER            -> row

\* getEarliestMessageSql: the cached statement, built from table.queues when
\* the cache is empty; the statement is represented by the queue set it names
getEarliestMessageSql ==
    IF earliestMessageSql = NoSql THEN SqlOf(queues) ELSE earliestMessageSql

\* a claim statement without its status condition
VisibleAnyStatus(m, qs) ==
    /\ rows[m].ins = "committed"
    /\ rows[m].queue \in qs

\* a claim statement that reads rows of transactions still open
VisibleUncommitted(m, qs) ==
    /\ rows[m].ins \in {"open", "committed"}
    /\ rows[m].queue \in qs
    /\ rows[m].status = statusWait

\* rows the claim statement can see: committed, of a named queue, status wait
Visible(m, qs) ==
    /\ rows[m].ins = "committed"
    /\ rows[m].queue \in qs
    /\ rows[m].status = statusWait

\* a claim statement that ignores the locks of other transactions
SkipLockedNever(m) == TRUE

\* FOR UPDATE SKIP LOCKED: rows locked by another transaction are passed over
SkipLocked(m) == ~Locked(m)

\* EarliestMessage: the results the statement may give: 0 for sql.ErrNoRows,
\* else a visible unlocked row of least retry_at (ORDER BY retry_at LIMIT 1)
EarliestMessage(qs) ==
    LET C == {m \in Msgs : Visible(m, qs) /\ SkipLocked(m)}
    IN  IF C = {} THEN {0}
        ELSE {m \in C : \A n \in C : rows[m].retry_at <= rows[n].retry_at}

\* SetQueues: replaces the queue set and empties the cached statement
SetQueues(qs) ==
    /\ qs # queues
    /\ queues' = qs
    /\ earliestMessageSql' = NoSql
    /\ call' = [p \in Procs |-> [call[p] EXCEPT !.fresh = FALSE]]
    /\ UNCHANGED <<now, rows, handlers, txs, loop, consumeNotify, trig, hist>>

\* EarliestMessage, line 77, and the read-locked section of
\* getEarliestMessageSql: an empty cache makes the call build the statement
\* from table.queues and release the read lock before it stores the statement
EarliestMessageBegin(p) ==
    /\ call[p].pc = "idle"
    /\ call' = [call EXCEPT ![p] =
                  [pc |-> IF earliestMessageSql = NoSql THEN "store" ELSE "query",
                   querySql |-> getEarliestMessageSql, ret |-> 0, fresh |-> TRUE]]
    /\ UNCHANGED <<now, rows, queues, earliestMessageSql, handlers, txs, loop, consumeNotify, trig, hist>>

\* getEarliestMessageSql, lines 108-112: the write-locked section stores the
\* statement built before
EarliestMessageStore(p) ==
    /\ call[p].pc = "store"
    /\ earliestMessageSql' = call[p].querySql
    /\ call' = [call EXCEPT ![p].pc = "query"]
    /\ UNCHANGED <<now, rows, queues, handlers, txs, loop, consumeNotify, trig, hist>>

\* EarliestMessage, lines 78-85: the statement runs and the call returns (a
\* statement with an empty IN () list fails, the call returns no row)
EarliestMessageQuery(p) ==
    /\ call[p].pc = "query"
    /\ \E m \in (IF call[p].querySql.queues = {} THEN {0}
                 ELSE EarliestMessage(call[p].querySql.queues)) :
          call' = [call EXCEPT ![p].pc = "idle", ![p].ret = m]
    /\ UNCHANGED <<now, rows, queues, earliestMessageSql, handlers, txs, loop, consumeNotify, trig, hist>>

\* Register: adds a handler for a queue
Register(q) ==
    /\ q \notin handlers
    /\ handlers' = handlers \cup {q}
    /\ UNCHANGED <<now, call, rows, queues, earliestMessageSql, txs, loop, consumeNotify, trig, hist>>

\* ------------------------------------------------------------ producers
\* ProduceMessage inside the caller's transaction: ids come from the sequence,
\* CreatedAt zero becomes now, RetryAt zero becomes CreatedAt.  The row is
\* written in the caller's transaction, which stays open.
NextId == CHOOSE m \in Msgs : rows[m].ins = "none" /\ \A n \in Msgs : n < m => rows[n].ins # "none"

ProduceMessage(q, delay) ==
    /\ \E m \in Msgs : rows[m].ins = "none"
    /\ LET CreatedAt == now
           RetryAt == IF delay = 0 THEN CreatedAt ELSE now + delay
       IN  rows' = [rows EXCEPT ![NextId] =
                      [ins |-> "open", queue |-> q, status |-> statusWait,
                       try_count |-> 0, retry_at |-> RetryAt]]
    /\ UNCHANGED <<now, call, queues, earliestMessageSql, handlers, txs, loop, consumeNotify, trig, hist>>

\* the caller ends its transaction
ProducerCommit(m) ==
    /\ rows[m].ins = "open"
    /\ rows' = [rows EXCEPT ![m].ins = "committed"]
    /\ UNCHANGED <<now, call, queues, earliestMessageSql, handlers, txs, loop, consumeNotify, trig, hist>>

ProducerRollback(m) ==
    /\ rows[m].ins = "open"
    /\ rows' = [rows EXCEPT ![m].ins = "rolledback"]
    /\ UNCHANGED <<now, call, queues, earliestMessageSql, handlers, txs, loop, consumeNotify, trig, hist>>

\* -------------------------------------------------------- the wake-up channel
\* a channel with room for two notifications
NotifyCapTwo == 1 + 1

\* make(chan struct{}, 1)
NotifyCap == 1

\* a send that does not block: dropped when the channel is full
Notified(ch, p) == [ch EXCEPT ![p] = IF @ < NotifyCap THEN @ + 1 ELSE @]

\* TriggerConsume, as called by anyone and by markFail after MarkRetry
Trigger(p) ==
    /\ consumeNotify' = Notified(consumeNotify, p)
    /\ trig' = [trig EXCEPT ![p] = @ \/ loop[p].pc = "sleep"]

TriggerConsume(p) ==
    /\ Trigger(p)
    /\ UNCHANGED <<now, call, rows, queues, earliestMessageSql, handlers, txs, loop, hist>>

\* ------------------------------------------------------- the consumer loop
\* a sleep whose timer is set one tick late
SleepTooLong(p, d, res, over) ==
    [loop EXCEPT ![p] = [pc |-> "sleep", until |-> now + d + 1, res |-> res, over |-> over]]

\* Consume: wait > 0, so the loop sleeps in its select
Sleep(p, d, res, over) ==
    [loop EXCEPT ![p] = [pc |-> "sleep", until |-> now + d, res |-> res, over |-> over]]

\* the loop is polling: pc "consume" enters consume, "consumeOne" is inside its for loop
Polling(p, pc) ==
    [loop EXCEPT ![p] = [pc |-> pc, until |-> 0, res |-> "none", over |-> NoneOver]]

\* a consume that returns the wait of consumeOne as it is
ClampNever(wait) == wait

\* consume: a wait longer than idleWait is cut to idleWait
Clamp(wait) == IF wait > IdleWait THEN IdleWait ELSE wait

FreeTx == {t \in TxIds : txs[t].state = "free"}

\* why the claim statement passes over message m, if it does
PassedOver(m) ==
    CASE rows[m].ins \in {"open", "rolledback"}       -> rows[m].ins
      [] rows[m].ins = "committed" /\ rows[m].status # statusWait -> rows[m].status
      [] rows[m].ins = "committed" /\ Locked(m)       -> "locked"
      [] OTHER                                        -> ""

AllPassedOver == [m \in Msgs |-> PassedOver(m)]


\* consumeOne, with the part of consume that acts on its result
consumeOne(p) ==
    /\ UNCHANGED <<now, call, rows, queues, handlers, consumeNotify>>
    /\ trig' = [trig EXCEPT ![p] = FALSE]
    /\ \/ \* beginTx fails: consume returns errorWait
          /\ loop' = Sleep(p, ErrorWait, "error", NoneOver)
          /\ UNCHANGED <<earliestMessageSql, txs, hist>>
       \/ \* EarliestMessage fails: tx.Rollback, cancel, consume returns errorWait
          /\ loop' = Sleep(p, ErrorWait, "error", NoneOver)
          /\ earliestMessageSql' = getEarliestMessageSql
          /\ UNCHANGED <<txs, hist>>
       \/ \* the statement runs (an empty IN () list is a syntax error)
          /\ getEarliestMessageSql.queues # {}
          /\ earliestMessageSql' = getEarliestMessageSql
          /\ \E m \in EarliestMessage(getEarliestMessageSql.queues) :
               IF m = 0
               THEN \* no row: wait = idleWait, tx.Rollback, cancel
                    /\ loop' = Sleep(p, Clamp(IdleWait), "idle", AllPassedOver)
                    /\ UNCHANGED <<txs, hist>>
               ELSE IF rows[m].retry_at - now > 0
               THEN \* wait = time.Until(msg.ConsumeAt()), tx.Rollback, cancel
                    /\ loop' = Sleep(p, Clamp(rows[m].retry_at - now), "future", AllPassedOver)
                    /\ UNCHANGED <<txs, hist>>
               ELSE \* go mq.handle(ctx, cancel, tx, msg); wait = 0
                    /\ FreeTx # {}
                    /\ hist[m].started < MaxDispatch
                    /\ LET t == CHOOSE t \in FreeTx : \A u \in FreeTx : t <= u
                       IN  txs' = [txs EXCEPT ![t] =
                                     [NoTx EXCEPT !.state = "open", !.proc = p,
                                                  !.msg = m, !.pc = "handle"]]
                    /\ hist' = [hist EXCEPT ![m].started = @ + 1]
                    /\ loop' = Polling(p, "consumeOne")

\* consume, entered from Consume's loop: noQueues, else the first consumeOne
consume(p) ==
    /\ loop[p].pc = "consume"
    /\ IF queues = {}
       THEN /\ loop' = Sleep(p, IdleWait, "noqueues", NoneOver)
            /\ trig' = [trig EXCEPT ![p] = FALSE]
            /\ UNCHANGED <<now, call, rows, queues, earliestMessageSql, handlers, txs, consumeNotify, hist>>
       ELSE consumeOne(p)

\* the next round of consume's for loop, after a consumeOne that returned 0
consumeAgain(p) ==
    /\ loop[p].pc = "consumeOne"
    /\ consumeOne(p)

\* Consume's select: the timer fires (beyond MaxTime the clock stands for
\* every later time, so every timer has fired)
WakeTimer(p) ==
    /\ loop[p].pc = "sleep"
    /\ now >= loop[p].until \/ now = MaxTime
    /\ loop' = Polling(p, "consume")
    /\ UNCHANGED <<now, call, rows, queues, earliestMessageSql, handlers, txs, consumeNotify, trig, hist>>

\* Consume's select: a value is received from consumeNotify
WakeNotify(p) ==
    /\ loop[p].pc = "sleep"
    /\ consumeNotify[p] > 0
    /\ consumeNotify' = [consumeNotify EXCEPT ![p] = @ - 1]
    /\ loop' = Polling(p, "consume")
    /\ UNCHANGED <<now, call, rows, queues, earliestMessageSql, handlers, txs, trig, hist>>

\* ---------------------------------------------------------- the dispatcher
\* a slot is free again once the transaction has ended, handle has returned
\* and the markFail goroutine, if any, has finished
Release(tx) ==
    IF tx.state = "ended" /\ tx.pc = "done" /\ tx.job \in {"none", "done"}
    THEN NoTx ELSE tx

\* a transaction that still takes statements after it has ended
TxExecOkAfterEnd(tx, dbOk) == ~tx.aborted /\ dbOk

\* a statement on the claim transaction: it succeeds only while the
\* transaction is open and not aborted, and then only if the database agrees
TxExecOk(tx, dbOk) == tx.state = "open" /\ ~tx.aborted /\ dbOk

\* handle up to the handler call: handlerOf, and for an unknown queue
\* canCommit = true and markFail(tx, msg, time.Minute)
HandleStart(t) ==
    /\ txs[t].pc = "handle"
    /\ UNCHANGED <<now, call, rows, queues, earliestMessageSql, handlers, loop, hist>>
    /\ IF rows[txs[t].msg].queue \in handlers
       THEN /\ txs' = [txs EXCEPT ![t].pc = "running"]
            /\ UNCHANGED <<consumeNotify, trig>>
       ELSE \E dbOk \in BOOLEAN :
            LET ok == TxExecOk(txs[t], dbOk)
            IN  /\ txs' = [txs EXCEPT ![t] =
                            [@ EXCEPT !.pc = "exit", !.err = TRUE, !.canCommit = TRUE,
                                      !.retryAfter = Minute,
                                      !.mark = IF ok THEN markFail(Minute) ELSE "none",
                                      !.markAt = IF ok THEN now ELSE 0,
                                      !.aborted = ~ok]]
                /\ IF ok THEN Trigger(txs[t].proc) ELSE UNCHANGED <<consumeNotify, trig>>

\* the handler returns (retryAfter, canCommit, err); handle marks the message
HandlerReturn(t, retryAfter, canCommit, err) ==
    /\ txs[t].pc = "running"
    /\ UNCHANGED <<now, call, rows, queues, earliestMessageSql, handlers, loop>>
    /\ hist' = [hist EXCEPT ![txs[t].msg].gaveUp = @ \/ (err /\ retryAfter < 0)]
    /\ \E dbOk \in BOOLEAN :
       LET tx == [txs[t] EXCEPT !.pc = "exit", !.retryAfter = IF err THEN retryAfter ELSE 0,
                                !.canCommit = canCommit, !.wrote = TRUE]
           ok == TxExecOk(tx, dbOk)
       IN  IF ~err
           THEN \* err = MarkSuccess(tx, msg)
                /\ txs' = [txs EXCEPT ![t] =
                            [tx EXCEPT !.err = ~ok, !.aborted = ~ok,
                                       !.mark = IF ok THEN "success" ELSE "none",
                                       !.markAt = IF ok THEN now ELSE 0]]
                /\ UNCHANGED <<consumeNotify, trig>>
           ELSE IF canCommit
           THEN \* mq.markFail(tx, msg, retryAfter)
                /\ txs' = [txs EXCEPT ![t] =
                            [tx EXCEPT !.err = TRUE, !.aborted = ~ok,
                                       !.mark = IF ok THEN markFail(retryAfter) ELSE "none",
                                       !.markAt = IF ok THEN now ELSE 0]]
                /\ IF ok /\ markFail(retryAfter) = "retry"
                   THEN Trigger(tx.proc) ELSE UNCHANGED <<consumeNotify, trig>>
           ELSE \* go mq.markFail(mq.DB, msg, retryAfter); time.Sleep
                /\ dbOk
                /\ txs' = [txs EXCEPT ![t] = [tx EXCEPT !.err = TRUE, !.job = "spawned"]]
                /\ UNCHANGED <<consumeNotify, trig>>

\* the handler panics after it has written through the transaction: the
\* assignment of line 305 does not happen, so handle's results keep the values
\* they had (err == nil from handlerOf, canCommit == false, retryAfter == 0),
\* no mark is issued, and the deferred function runs
HandlerPanic(t) ==
    /\ txs[t].pc = "running"
    /\ txs' = [txs EXCEPT ![t] = [@ EXCEPT !.pc = "exit", !.wrote = TRUE]]
    /\ UNCHANGED <<now, call, rows, queues, earliestMessageSql, handlers, loop,
                   consumeNotify, trig, hist>>

\* a deferred function that commits whatever the handler said
CommitAlways(tx) == TRUE

\* what handle's deferred function does with the transaction
CommitWanted(tx) == ~tx.err \/ tx.canCommit

\* a deferred function that ends the transaction only by Commit
EndTxOnCommitOnly(tx) ==
    IF CommitWanted(tx) THEN [tx EXCEPT !.state = "ended", !.pc = "done"]
    ELSE [tx EXCEPT !.pc = "done"]

\* handle's deferred function ends the transaction, by tx.Commit or by
\* tx.Rollback, calls cancel() and returns
EndTx(tx) == [tx EXCEPT !.state = "ended", !.pc = "done"]

\* handle's deferred function: Commit or Rollback, then cancel
HandleExit(t) ==
    /\ txs[t].pc = "exit"
    /\ UNCHANGED <<now, call, queues, earliestMessageSql, handlers, loop, consumeNotify, trig>>
    /\ \E dbOk \in BOOLEAN :
       LET tx == txs[t]
           m == tx.msg
           committed == CommitWanted(tx) /\ TxExecOk(tx, dbOk)
       IN  /\ txs' = [txs EXCEPT ![t] = Release(EndTx(tx))]
           /\ IF committed
              THEN /\ rows' = [rows EXCEPT ![m] = ApplyMark(@, tx.mark, tx.markAt, tx.retryAfter)]
                   /\ hist' = [hist EXCEPT
                                ![m].success = IF tx.mark = "success" THEN @ + 1 ELSE @,
                                ![m].effects = IF tx.wrote THEN @ + 1 ELSE @]
              ELSE /\ UNCHANGED rows
                   /\ hist' = [hist EXCEPT ![m].lost = IF tx.job = "none" THEN @ + 1 ELSE @]

\* the TxTimeout of beginTx fires while the handler runs: database/sql rolls
\* the transaction back, which releases the row lock
Timeout(t) ==
    /\ txs[t].pc = "running"
    /\ txs[t].state = "open"
    /\ txs' = [txs EXCEPT ![t].state = "ended"]
    /\ UNCHANGED <<now, call, rows, queues, earliestMessageSql, handlers, loop, consumeNotify, trig, hist>>

\* the goroutine of `go mq.markFail(mq.DB, ...)` builds its UPDATE (time.Now())
\* and sends it on a connection of its own
JobSend(t) ==
    /\ txs[t].job = "spawned"
    /\ txs' = [txs EXCEPT ![t].job = "exec", ![t].jobAt = now]
    /\ UNCHANGED <<now, call, rows, queues, earliestMessageSql, handlers, loop, consumeNotify, trig, hist>>

\* the UPDATE gets the row lock (it waits while a transaction holds it), is
\* applied and committed, or fails; markFail then signals TriggerConsume
JobExec(t) ==
    /\ txs[t].job = "exec"
    /\ ~Locked(txs[t].msg)
    /\ UNCHANGED <<now, call, queues, earliestMessageSql, handlers, loop>>
    /\ \E dbOk \in BOOLEAN :
       LET tx == txs[t]
           m == tx.msg
           mark == markFail(tx.retryAfter)
       IN  /\ txs' = [txs EXCEPT ![t] = Release([tx EXCEPT !.job = "done"])]
           /\ IF dbOk
              THEN /\ rows' = [rows EXCEPT ![m] = ApplyMark(@, mark, tx.jobAt, tx.retryAfter)]
                   /\ UNCHANGED hist
                   /\ IF mark = "retry"
                      THEN Trigger(tx.proc) ELSE UNCHANGED <<consumeNotify, trig>>
              ELSE /\ UNCHANGED <<rows, consumeNotify, trig>>
                   /\ hist' = [hist EXCEPT ![m].lost = @ + 1]

Tick ==
    /\ now < MaxTime
    /\ now' = now + 1
    /\ UNCHANGED <<rows, queues, earliestMessageSql, handlers, txs, loop, consumeNotify, trig, hist, call>>

Next ==
    \/ Tick
    \/ \E q \in QueueNames, delay \in {0, 1} : ProduceMessage(q, delay)
    \/ \E m \in Msgs : ProducerCommit(m)
    \/ \E m \in Msgs : ProducerRollback(m)
    \/ \E p \in Procs : TriggerConsume(p)
    \/ \E p \in Procs : consume(p)
    \/ \E p \in Procs : consumeAgain(p)
    \/ \E p \in Procs : WakeTimer(p)
    \/ \E p \in Procs : WakeNotify(p)
    \/ \E t \in TxIds : HandleStart(t)
    \/ \E t \in TxIds, retryAfter \in RetryAfters, canCommit \in BOOLEAN, err \in BOOLEAN :
          HandlerReturn(t, retryAfter, canCommit, err)
    \/ \E t \in TxIds : HandleExit(t)
    \/ \E t \in TxIds : Timeout(t)
    \/ \E t \in TxIds : JobSend(t)
    \/ \E t \in TxIds : JobExec(t)

Spec == Init /\ [][Next]_vars
\* the scheduling the Go runtime and the database give: every goroutine that
\* can take a step takes it, the clock advances, timers fire
Fairness ==
    /\ WF_vars(Tick)
    /\ \A p \in Procs : WF_vars(consume(p)) /\ WF_vars(consumeAgain(p))
    /\ \A p \in Procs : WF_vars(WakeTimer(p)) /\ WF_vars(WakeNotify(p))
    /\ \A t \in TxIds : WF_vars(HandleStart(t)) /\ WF_vars(HandleExit(t))
    /\ \A t \in TxIds : WF_vars(JobSend(t)) /\ WF_vars(JobExec(t))
    /\ \A t \in TxIds : WF_vars(\E r \in RetryAfters, c \in BOOLEAN, e \in BOOLEAN :
                                   HandlerReturn(t, r, c, e))

FairSpec == Spec /\ Fairness

\* the consumer loop alone is scheduled fairly (its goroutine runs, the clock
\* advances, its timer fires); handlers and markFail goroutines may hang
LoopFairness ==
    /\ WF_vars(Tick)
    /\ \A p \in Procs : WF_vars(consume(p)) /\ WF_vars(consumeAgain(p))
    /\ \A p \in Procs : WF_vars(WakeTimer(p))

LoopFairSpec == Spec /\ LoopFairness

\* handle, once the handler has returned, runs to its end: the sleep of 100 ms
\* ends and Commit or Rollback return
ExitFairSpec == Spec /\ \A t \in TxIds : WF_vars(HandleExit(t))

\* the consumer with handlers that may panic instead of returning
PanicNext ==
    \/ Next
    \/ \E t \in TxIds : HandlerPanic(t)

PanicSpec == Init /\ [][PanicNext]_vars

\* the consumer with handlers registered while it runs
RegisterNext ==
    \/ Next
    \/ \E q \in QueueNames : Register(q)

RegisterSpec == Init /\ [][RegisterNext]_vars

\* a step in which no call to the database fails: no error of beginTx or
\* EarliestMessage, no failed statement, no failed commit
NoDbError ==
    /\ \A p \in Procs : loop'[p].res # "error"
    /\ \A t \in TxIds : ~txs'[t].aborted
    /\ \A m \in Msgs : hist'[m].lost = hist[m].lost

\* the consumer when the database never fails, every handler returns
\* err == nil and returns before the TxTimeout
NoErrorNext ==
    \/ Tick
    \/ \E q \in QueueNames, delay \in {0, 1} : ProduceMessage(q, delay)
    \/ \E m \in Msgs : ProducerCommit(m)
    \/ \E m \in Msgs : ProducerRollback(m)
    \/ \E p \in Procs : TriggerConsume(p)
    \/ \E p \in Procs : consume(p) /\ NoDbError
    \/ \E p \in Procs : consumeAgain(p) /\ NoDbError
    \/ \E p \in Procs : WakeTimer(p)
    \/ \E p \in Procs : WakeNotify(p)
    \/ \E t \in TxIds : HandleStart(t) /\ NoDbError
    \/ \E t \in TxIds, canCommit \in BOOLEAN : HandlerReturn(t, 0, canCommit, FALSE) /\ NoDbError
    \/ \E t \in TxIds : HandleExit(t) /\ NoDbError

\* fair scheduling of the loop goroutine and of the handle goroutines; the
\* clock advances and timers fire
NoErrorFairness ==
    /\ WF_vars(Tick)
    /\ \A p \in Procs : WF_vars(consume(p) /\ NoDbError) /\ WF_vars(consumeAgain(p) /\ NoDbError)
    /\ \A p \in Procs : WF_vars(WakeTimer(p))
    /\ \A t \in TxIds : WF_vars(HandleStart(t) /\ NoDbError) /\ WF_vars(HandleExit(t) /\ NoDbError)
    /\ \A t \in TxIds : WF_vars(\E c \in BOOLEAN : HandlerReturn(t, 0, c, FALSE) /\ NoDbError)

NoErrorFairSpec == Init /\ [][NoErrorNext]_vars /\ NoErrorFairness

\* the table adapter alone: SetQueues called at any time while EarliestMessage
\* calls are in progress, on rows that producers insert
CacheNext ==
    \/ \E qs \in AllQueueSets : SetQueues(qs)
    \/ \E p \in Procs : EarliestMessageBegin(p)
    \/ \E p \in Procs : EarliestMessageStore(p)
    \/ \E p \in Procs : EarliestMessageQuery(p)
    \/ \E q \in QueueNames, delay \in {0, 1} : ProduceMessage(q, delay)
    \/ \E m \in Msgs : ProducerCommit(m)
    \/ \E m \in Msgs : ProducerRollback(m)

CacheSpec == Init /\ [][CacheNext]_vars

\* ------------------------------------------------------------------ claims
Committed(m) == rows[m].ins = "committed"
Terminal(m) == rows[m].status \in {statusDone, statusGivenUp}

\* C1: the only committed status changes are wait->wait, wait->done and
\* wait->givenUp: a status that is done or givenUp never changes again.
C1_TerminalStatusFinal ==
    [][\A m \in Msgs :
         Committed(m) =>
            \/ rows'[m].status = rows[m].status
            \/ rows[m].status = statusWait]_vars

\* a handler is invoked for message m in this step
HandlerStarts(t) == txs[t].pc = "handle" /\ txs'[t].pc = "running"
\* a claim transaction locks a row in this step
Claims(t) == txs[t].state = "free" /\ txs'[t].state = "open"

C3_OneLockOneSuccess ==
    /\ \A t, u \in TxIds :
          (t # u /\ txs[t].state = "open" /\ txs[u].state = "open")
             => txs[t].msg # txs[u].msg
    /\ \A m \in Msgs : hist[m].success <= 1

\* C3 witness: a poll passed over a message because another transaction held
\* its lock, and that transaction's MarkSuccess has since been committed
C3_Witness ==
    \E p \in Procs, m \in Msgs :
        /\ loop[p].pc = "sleep"
        /\ loop[p].over[m] = "locked"
        /\ hist[m].success = 1
        /\ hist[m].started = MaxDispatch

\* handle's deferred function ends the transaction of slot t in this step
Exits(t) == txs[t].pc = "exit" /\ txs'[t].pc # "exit"
\* the UPDATE of the markFail goroutine of slot t ends in this step
JobEnds(t) == txs[t].job = "exec" /\ txs'[t].job # "exec"

C5_BookkeepingAlwaysApplied ==
    [][\A t \in TxIds :
         JobEnds(t) => rows'[txs[t].msg].try_count = rows[txs[t].msg].try_count + 1]_vars

\* C5 (amended): err != nil with canCommit == false ends in a rollback that
\* changes no row and commits no handler write; the UPDATE on the independent
\* connection is eventually executed, and unless it fails it adds one to
\* try_count and sets retry_at to the time MarkRetry was called plus
\* retryAfter (retryAfter >= 0) or status to givenUp (retryAfter < 0).
C5_RollbackThenBookkeeping ==
    /\ [][\A t \in TxIds :
            LET m == txs[t].msg
                row == rows[m]
            IN  /\ (Exits(t) /\ ~CommitWanted(txs[t])) =>
                      /\ rows' = rows
                      /\ hist'[m].effects = hist[m].effects
                /\ JobEnds(t) =>
                      \/ /\ rows' = rows
                         /\ hist'[m].lost = hist[m].lost + 1
                      \/ /\ txs[t].retryAfter >= 0
                         /\ rows'[m] = [row EXCEPT !.try_count = row.try_count + 1,
                                                   !.retry_at = txs[t].jobAt + txs[t].retryAfter]
                      \/ /\ txs[t].retryAfter < 0
                         /\ rows'[m].try_count = row.try_count + 1
                         /\ rows'[m].status = statusGivenUp]_vars
    /\ \A t \in TxIds :
          (txs[t].job \in {"spawned", "exec"}) ~> (txs[t].job \notin {"spawned", "exec"})

\* C5 witness: one dispatch of a handled message, nothing of the handler
\* committed, and the retry bookkeeping is in the row
C5_Witness ==
    \E m \in Msgs :
        /\ rows[m].queue \in handlers
        /\ hist[m].started = 1
        /\ hist[m].effects = 0
        /\ rows[m].try_count = 1
        /\ rows[m].status = statusWait
        /\ rows[m].retry_at = 2
        /\ \A t \in TxIds : txs[t].state = "free"

\* dispatches of m whose mark is still to be committed or given up: those
\* whose handle has not ended its transaction, or whose markFail goroutine
\* has not finished
Unsettled(t) ==
    /\ txs[t].state # "free"
    /\ IF txs[t].job = "none" THEN txs[t].pc # "done" ELSE txs[t].job # "done"

InFlight(m) == Cardinality({t \in TxIds : Unsettled(t) /\ txs[t].msg = m})

ReturnsGiveUp(t) ==
    /\ txs[t].pc = "running"
    /\ txs'[t].pc = "exit"
    /\ hist'[txs[t].msg].gaveUp
    /\ txs'[t].retryAfter < 0

C8_PublishedAtCommit ==
    /\ [](\A m \in Msgs : hist[m].started > 0 => Committed(m))
    /\ [](\A t \in TxIds : txs[t].state # "free" => Committed(txs[t].msg))
    /\ [][\A m \in Msgs :
            /\ rows[m].ins = "none" => rows'[m].ins \in {"none", "open"}
            /\ (rows[m].ins = "open" /\ rows'[m].ins # "open") =>
                  (ProducerCommit(m) \/ ProducerRollback(m))
            /\ rows[m].ins = "rolledback" => rows'[m] = rows[m]]_vars

\* C8 witness: a poll ran while the row was inserted but not committed, and
\* passed it over
C8_Witness ==
    \E p \in Procs, m \in Msgs :
        /\ loop[p].pc = "sleep"
        /\ loop[p].res = "idle"
        /\ loop[p].over[m] = "open"
        /\ rows[m].ins = "open"
        /\ rows[m].retry_at <= now
        /\ hist[m].started = 0

\* C9: an error of beginTx or EarliestMessage leaves no transaction behind and
\* makes the loop sleep errorWait; the loop is always polling or in a sleep
\* that ends, whatever handlers, marks, commits and rollbacks do: it polls
\* again and again.
C9_LoopSurvivesErrors ==
    /\ [](\A p \in Procs : loop[p].pc \in {"consume", "consumeOne", "sleep"})
    /\ [][\A p \in Procs :
            (loop[p].pc # "sleep" /\ loop'[p].pc = "sleep" /\ loop'[p].res = "error") =>
               /\ loop'[p].until = now + ErrorWait
               /\ txs' = txs
               /\ rows' = rows]_vars
    /\ [](\A p \in Procs :
            (loop[p].pc = "sleep" /\ loop[p].res = "error") => loop[p].until - now <= ErrorWait)
    /\ \A p \in Procs : (loop[p].pc = "sleep") ~> (loop[p].pc = "consume")
    /\ \A p \in Procs : (loop[p].pc = "consume") ~> (loop[p].pc # "consume")

\* C9 witness: the loop sleeps errorWait after an error while a handler is
\* still running and another dispatch has lost its mark to an error
C9_Witness ==
    \E p \in Procs, t \in TxIds :
        /\ loop[p].pc = "sleep"
        /\ loop[p].res = "error"
        /\ loop[p].until = now + ErrorWait
        /\ txs[t].pc = "running"
        /\ hist[txs[t].msg].lost > 0

\* the sleep of process p ends in this step
SleepEnds(p) == loop[p].pc = "sleep" /\ loop'[p].pc # "sleep"

\* C10 (as claimed): when a sleep during which TriggerConsume was called ends,
\* no notification remains to cut the following sleep short.
C10_NoNotificationLeft ==
    [][\A p \in Procs : (SleepEnds(p) /\ trig[p]) => consumeNotify'[p] = 0]_vars

\* C10 (amended): the channel never holds more than one notification, so the
\* calls made during one sleep cause at most one wake-up: a sleep ended by the
\* notification leaves none, and a sleep ended by its timer leaves the channel
\* as it was, the pending notification ending the following sleep at once.
C10_CoalescedWakeUp ==
    /\ [](\A p \in Procs : consumeNotify[p] \in {0, 1})
    /\ [][\A p \in Procs :
            /\ SleepEnds(p) =>
                  \/ consumeNotify[p] = 1 /\ consumeNotify'[p] = 0
                  \/ (now >= loop[p].until \/ now = MaxTime) /\ consumeNotify'[p] = consumeNotify[p]
            /\ consumeNotify'[p] < consumeNotify[p] => SleepEnds(p)
            /\ (consumeNotify[p] = 1 /\ loop'[p] = loop[p]) => consumeNotify'[p] = 1]_vars

\* C10 witness: TriggerConsume was called during a sleep, the notification
\* ended it, and none is left
C10_Witness ==
    \E p \in Procs :
        /\ trig[p]
        /\ loop[p].pc = "consume"
        /\ consumeNotify[p] = 0

\* C11: whenever no SetQueues or getEarliestMessageSql call is in progress the
\* cached statement is empty or was built from the registered queue set, and a
\* call that began after the last SetQueues returned queries exactly the
\* registered queues.
C11_CacheFollowsQueues ==
    /\ (\A p \in Procs : call[p].pc = "idle") =>
          (earliestMessageSql = NoSql \/ earliestMessageSql = SqlOf(queues))
    /\ \A p \in Procs :
          (call[p].pc = "query" /\ call[p].fresh) => call[p].querySql = SqlOf(queues)

\* the handler of slot t returns in this step
HandlerReturns(t) == txs[t].pc = "running" /\ txs'[t].pc = "exit"
\* the TxTimeout of slot t fires in this step
TimesOut(t) == txs[t].pc = "running" /\ txs[t].state = "open" /\ txs'[t].state = "ended"
\* the transaction of slot t has timed out and handle has not exited yet
TimedOut(t) == txs[t].pc \in {"running", "exit"} /\ txs[t].state = "ended"

\* C12 (as claimed): a dispatch whose transaction timed out while the handler
\* ran changes nothing of the message, whatever the handler returns: neither
\* handle's exit nor its markFail goroutine changes the row.
C12_TimeoutKeepsState ==
    [][\A t \in TxIds :
         (TimedOut(t) /\ (Exits(t) \/ JobEnds(t))) => rows' = rows]_vars

\* C12 (amended): the TxTimeout rolls the claim transaction back and releases
\* the row; no statement on it succeeds afterwards and handle's exit commits
\* nothing, neither a mark nor a write of the handler.  Only when the handler
\* returns err != nil with canCommit == false does the dispatch still change
\* the row: the UPDATE on the independent connection, unless it fails, adds
\* one to try_count and sets retry_at or givenUp.
C12_TimeoutRollsBack ==
    [][\A t \in TxIds :
         LET m == txs[t].msg
         IN  /\ TimesOut(t) =>
                   /\ txs'[t].pc = "running"
                   /\ rows' = rows
                   /\ TimedOut(t)'
             /\ (TimedOut(t) /\ HandlerReturns(t)) =>
                   /\ txs'[t].mark = "none"
                   /\ consumeNotify' = consumeNotify
                   /\ txs'[t].job = "spawned" => (txs'[t].err /\ ~txs'[t].canCommit)
                   /\ rows' = rows
             /\ (TimedOut(t) /\ Exits(t)) =>
                   /\ rows' = rows
                   /\ hist'[m].effects = hist[m].effects
                   /\ hist'[m].success = hist[m].success
             /\ (TimedOut(t) /\ JobEnds(t)) =>
                   /\ txs[t].err /\ ~txs[t].canCommit
                   /\ \/ rows' = rows
                      \/ /\ rows'[m].try_count = rows[m].try_count + 1
                         /\ txs[t].retryAfter >= 0 =>
                               /\ rows'[m].retry_at = txs[t].jobAt + txs[t].retryAfter
                               /\ rows'[m].status = rows[m].status
                         /\ txs[t].retryAfter < 0 => rows'[m].status = statusGivenUp]_vars

\* C12 witness: the transaction timed out while the handler ran, the handler
\* has written and returned without an error, its MarkSuccess has failed, and
\* the row is as it was before the claim
C12_Witness ==
    \E t \in TxIds :
        /\ TimedOut(t)
        /\ txs[t].pc = "exit"
        /\ txs[t].wrote /\ txs[t].mark = "none" /\ txs[t].job = "none"
        /\ hist[txs[t].msg].started = 1
        /\ hist[txs[t].msg].effects = 0
        /\ rows[txs[t].msg].try_count = 0
        /\ rows[txs[t].msg].status = statusWait

\* handle finds no handler for the queue of the message of slot t in this step
UnknownQueueStarts(t) == txs[t].pc = "handle" /\ txs'[t].pc = "exit"
\* handle is at its exit without having invoked a handler
UnknownQueue(t) == txs[t].pc = "exit" /\ ~txs[t].wrote

\* C13 (as claimed): the dispatch of a message whose queue has no handler
\* always commits try_count + 1 and retry_at one minute ahead, status wait.
C13_UnknownQueueAlwaysRescheduled ==
    [][\A t \in TxIds :
         (UnknownQueue(t) /\ Exits(t)) =>
            rows'[txs[t].msg] =
               [rows[txs[t].msg] EXCEPT !.try_count = @ + 1,
                                        !.retry_at = txs[t].markAt + Minute]]_vars

\* C13 (amended): for a queue without a handler no handler is invoked; handle
\* issues MarkRetry(tx, msg, one minute), signals the wake-up and commits the
\* claim transaction, which, unless the statement or the commit fails, leaves
\* the message in wait with try_count + 1 and retry_at one minute after the
\* mark; the loop is not touched; a handler is invoked only for a queue that
\* has one, whatever the history of the message.
C13_UnknownQueueRescheduled ==
    [][\A t \in TxIds :
         LET m == txs[t].msg
             p == txs[t].proc
         IN  /\ UnknownQueueStarts(t) =>
                   /\ rows[m].queue \notin handlers
                   /\ txs'[t].canCommit /\ ~txs'[t].wrote /\ txs'[t].job = "none"
                   /\ txs'[t].mark \in {"retry", "none"}
                   /\ txs'[t].mark = "retry" =>
                         /\ txs'[t].markAt = now /\ txs'[t].retryAfter = Minute
                         /\ consumeNotify'[p] = 1
                   /\ txs'[t].mark = "none" => txs'[t].aborted
                   /\ loop' = loop /\ rows' = rows
             /\ HandlerStarts(t) => rows[m].queue \in handlers
             /\ (UnknownQueue(t) /\ Exits(t)) =>
                   /\ loop' = loop
                   /\ txs'[t].state # "open"
                   /\ hist'[m].effects = hist[m].effects
                   /\ \/ /\ rows' = rows
                         /\ hist'[m].lost = hist[m].lost + 1
                      \/ /\ txs[t].mark = "retry"
                         /\ rows'[m] = [rows[m] EXCEPT !.try_count = @ + 1,
                                                       !.retry_at = txs[t].markAt + Minute]
                         /\ rows'[m].status = statusWait]_vars

\* C13 witness: a message was rescheduled because its queue had no handler;
\* a handler has been registered since, and the handler is now running for it
C13_Witness ==
    \E t \in TxIds :
        /\ txs[t].pc = "running"
        /\ rows[txs[t].msg].queue = "b"
        /\ rows[txs[t].msg].try_count = 1
        /\ rows[txs[t].msg].retry_at = Minute
        /\ hist[txs[t].msg].started = 2
        /\ hist[txs[t].msg].lost = 0

\* C14: the row an EarliestMessage call returns has status wait and belongs
\* to a currently registered queue: for a call during which no SetQueues ran,
\* the row is one the claim statement for table.queues can see.
C14_ReturnsRegisteredWaitRow ==
    \A p \in Procs :
        (call[p].pc = "idle" /\ call[p].fresh /\ call[p].ret # 0) =>
            Visible(call[p].ret, queues)

\* message m is eligible: committed, of a registered queue, in wait, due and unlocked
Eligible(m) == Visible(m, queues) /\ ~Locked(m) /\ rows[m].retry_at <= now
\* the loop of process p goes to sleep in this step
SleepBegins(p) == loop[p].pc # "sleep" /\ loop'[p].pc = "sleep"

RetryCommitted(t) ==
    /\ rows' # rows
    /\ \/ Exits(t) /\ txs[t].wrote /\ txs[t].mark = "retry"
       \/ JobEnds(t) /\ txs[t].retryAfter >= 0

\* C16: once the retry of a handler that returned err != nil with
\* retryAfter >= 0 is committed, the loop is polling, or has a wake-up pending,
\* or sleeps no longer than until the new retry_at (a sleep after a failed poll
\* aside).
C16_LoopObservesRetry ==
    [][\A t \in TxIds :
         LET m == txs[t].msg
             p == txs[t].proc
         IN  RetryCommitted(t) =>
                \/ loop'[p].pc # "sleep"
                \/ consumeNotify'[p] > 0
                \/ loop'[p].until <= rows'[m].retry_at
                \/ loop'[p].until <= now
                \/ loop'[p].res = "error"]_vars

\* C17: every sleep of the loop is > 0 and is idleWait when no queues are
\* registered (no transaction opened), idleWait when the poll found no row,
\* min(retry_at - now, idleWait) when the earliest row is in the future and
\* errorWait on an error; a sleep that follows no error is at most idleWait,
\* and no sleep follows a poll that had an eligible row to return.
C17_SleepDurations ==
    [][\A p \in Procs :
         LET d == loop'[p].until - now
             res == loop'[p].res
             found == EarliestMessage(getEarliestMessageSql.queues)
         IN  SleepBegins(p) =>
                /\ d > 0
                /\ res \in {"noqueues", "idle", "future", "error"}
                /\ res # "error" => d <= IdleWait
                /\ res = "error" => d = ErrorWait /\ queues # {}
                /\ res = "noqueues" =>
                      /\ queues = {} /\ d = IdleWait
                      /\ loop[p].pc = "consume"
                      /\ earliestMessageSql' = earliestMessageSql
                /\ res = "idle" => queues # {} /\ found = {0} /\ d = IdleWait
                /\ res = "future" =>
                      /\ queues # {}
                      /\ \E m \in found \ {0} :
                            /\ rows[m].retry_at > now
                            /\ d = IF rows[m].retry_at - now < IdleWait
                                   THEN rows[m].retry_at - now ELSE IdleWait
                /\ res \in {"idle", "future"} => \A m \in Msgs : ~Eligible(m)
                /\ txs' = txs /\ rows' = rows]_vars

\* C17 witness: the earliest row is further away than idleWait and the loop
\* sleeps idleWait
C17_Witness ==
    \E p \in Procs, m \in Msgs :
        /\ loop[p].pc = "sleep"
        /\ loop[p].res = "future"
        /\ loop[p].until = now + IdleWait
        /\ Visible(m, queues) /\ ~Locked(m)
        /\ rows[m].retry_at > now + IdleWait

Running(t) == txs[t].state # "free" /\ txs[t].pc = "running"

Panicked(t) ==
    /\ txs[t].pc = "exit"
    /\ txs[t].wrote /\ ~txs[t].err /\ txs[t].mark = "none"

\* C20: when the handler panics, handle's deferred function does not commit
\* the claim transaction: no write of the aborted invocation becomes visible.
C20_PanicRollsBack ==
    [][\A t \in TxIds :
         (Panicked(t) /\ Exits(t)) =>
            hist'[txs[t].msg].effects = hist[txs[t].msg].effects]_vars

====
